---- MODULE Spec2Model ----
(***************************************************************************)
(* Model of src/app.py: the sales CSV is loaded, its header is normalised  *)
(* and verified, ten columns are cleaned to floats, the growth, capped and *)
(* bubble-size columns are derived, and the Dash callback update_chart     *)
(* filters the table by the two range sliders.                             *)
(*                                                                         *)
(* Text is a sequence of one-character strings.  A cell is a record        *)
(*   [k, s, n, d]:  k = "str" (text s), "num" (the rational n/d, d > 0, in *)
(*   lowest terms), "nan", "inf", "ninf"; "err" marks a float() that       *)
(*   raises and "none" the argument None of np.clip.                       *)
(* Floats are modelled as exact rationals with IEEE's NaN and infinities;  *)
(* rounding is not modelled.                                               *)
(***************************************************************************)
EXTENDS Integers, Sequences, FiniteSets, TLC

VARIABLES
    csv,            \* the file Sales_Dec24_2.csv: [header, rows]
    pc,             \* the statement of app.py about to run
    error,          \* the uncaught exception that ended the script, if any
    data,           \* the module-level DataFrame `data`
    col_i,          \* position of the for-loops over numeric_cols / percentage_cols
    layout,         \* the RangeSlider values of app.layout, <<>> before line 89
    growth_range,   \* argument of the latest update_chart call, <<>> before any
    av_range,       \* argument of the latest update_chart call, <<>> before any
    filtered_data   \* the local DataFrame of the latest update_chart call

vars == <<csv, pc, error, data, col_i, layout, growth_range, av_range, filtered_data>>

----------------------------------------------------------------------------
(* Bounds of the model *)

\* largest number of data rows of the CSV
MaxRows == 2

----------------------------------------------------------------------------
(* Text *)

Range(f) == {f[i] : i \in DOMAIN f}

Digits == {"0", "1", "2", "3", "4", "5", "6", "7", "8", "9"}

\* characters str.strip() removes
Whitespace == {" ", "\n", "\t"}

\* str.replace(a, b) for one-character a and b
ReplaceChar(s, a, b) == [i \in 1..Len(s) |-> IF s[i] = a THEN b ELSE s[i]]

\* str.replace(a, "", regex=False) for a one-character a
RemoveChar(s, a) == SelectSeq(s, LAMBDA c : c # a)

\* str.replace(r"[^\d.-]", "", regex=True)
RemoveNonNumeric(s) == SelectSeq(s, LAMBDA c : c \in Digits \cup {".", "-"})

RECURSIVE LStrip(_)
LStrip(s) ==
    IF s # <<>> /\ Head(s) \in Whitespace THEN LStrip(Tail(s)) ELSE s

RECURSIVE RStrip(_)
RStrip(s) ==
    IF s # <<>> /\ s[Len(s)] \in Whitespace THEN RStrip(SubSeq(s, 1, Len(s) - 1)) ELSE s

\* str.strip()
Strip(s) == RStrip(LStrip(s))

----------------------------------------------------------------------------
(* Cells and float arithmetic *)

Abs(x) == IF x < 0 THEN -x ELSE x

RECURSIVE GCD(_, _)
GCD(a, b) == IF b = 0 THEN a ELSE GCD(b, a % b)

Str(s) == [k |-> "str", s |-> s, n |-> 0, d |-> 1]
NaN == [k |-> "nan", s |-> <<>>, n |-> 0, d |-> 1]
PosInf == [k |-> "inf", s |-> <<>>, n |-> 0, d |-> 1]
NegInf == [k |-> "ninf", s |-> <<>>, n |-> 0, d |-> 1]

\* the float n/d, d # 0
Num(n, d) ==
    LET g == GCD(Abs(n), Abs(d))
        sg == IF d < 0 THEN -1 ELSE 1
    IN  [k |-> "num", s |-> <<>>, n |-> sg * (n \div g), d |-> sg * (d \div g)]

IsNaN(x) == x.k = "nan"
IsNum(x) == x.k = "num"

\* sign of a non-NaN float
Sign(x) ==
    CASE x.k = "inf" -> 1
      [] x.k = "ninf" -> -1
      [] OTHER -> IF x.n > 0 THEN 1 ELSE IF x.n < 0 THEN -1 ELSE 0

Signed(sg) == IF sg < 0 THEN NegInf ELSE PosInf

FNeg(x) ==
    CASE x.k = "nan" -> NaN
      [] x.k = "inf" -> NegInf
      [] x.k = "ninf" -> PosInf
      [] OTHER -> Num(-x.n, x.d)

\* a + b
FAdd(a, b) ==
    IF IsNaN(a) \/ IsNaN(b) THEN NaN
    ELSE IF IsNum(a) /\ IsNum(b) THEN Num(a.n * b.d + b.n * a.d, a.d * b.d)
    ELSE IF IsNum(a) THEN b
    ELSE IF IsNum(b) THEN a
    ELSE IF a.k = b.k THEN a ELSE NaN

\* a - b
FSub(a, b) == FAdd(a, FNeg(b))

\* a * b
FMul(a, b) ==
    IF IsNaN(a) \/ IsNaN(b) THEN NaN
    ELSE IF IsNum(a) /\ IsNum(b) THEN Num(a.n * b.n, a.d * b.d)
    ELSE IF Sign(a) = 0 \/ Sign(b) = 0 THEN NaN
    ELSE Signed(Sign(a) * Sign(b))

\* a / b as numpy divides float64 arrays: no exception, x/0 is +-inf, 0/0 is NaN
FDiv(a, b) ==
    IF IsNaN(a) \/ IsNaN(b) THEN NaN
    ELSE IF IsNum(a) /\ IsNum(b) THEN
        IF b.n = 0 THEN (IF a.n = 0 THEN NaN ELSE Signed(Sign(a)))
        ELSE Num(a.n * b.d, a.d * b.n)
    ELSE IF IsNum(a) THEN Num(0, 1)
    ELSE IF IsNum(b) THEN Signed(Sign(a) * (IF Sign(b) < 0 THEN -1 ELSE 1))
    ELSE NaN

\* a <= b; every comparison with NaN is False
FLe(a, b) ==
    IF IsNaN(a) \/ IsNaN(b) THEN FALSE
    ELSE IF IsNum(a) /\ IsNum(b) THEN a.n * b.d <= b.n * a.d
    ELSE IF a.k = b.k THEN TRUE
    ELSE a.k = "ninf" \/ b.k = "inf"

\* a >= b
FGe(a, b) == FLe(b, a)

\* a < b
FLt(a, b) == FLe(a, b) /\ ~FLe(b, a)

FMin2(a, b) == IF FLe(a, b) THEN a ELSE b
FMax2(a, b) == IF FLe(a, b) THEN b ELSE a

\* the float of an int
Int2F(i) == Num(i, 1)

----------------------------------------------------------------------------
(* float(text), as Series.astype(float) applies it to each string *)

DigitValue(c) ==
    CASE c = "0" -> 0 [] c = "1" -> 1 [] c = "2" -> 2 [] c = "3" -> 3 [] c = "4" -> 4
      [] c = "5" -> 5 [] c = "6" -> 6 [] c = "7" -> 7 [] c = "8" -> 8 [] c = "9" -> 9

RECURSIVE DigitsToNat(_)
DigitsToNat(s) ==
    IF s = <<>> THEN 0
    ELSE 10 * DigitsToNat(SubSeq(s, 1, Len(s) - 1))
         + DigitValue(s[Len(s)])

RECURSIVE Pow10(_)
Pow10(e) == IF e = 0 THEN 1 ELSE 10 * Pow10(e - 1)

\* the unsigned decimal literals float() accepts: digits with at most one point
IsDecimal(s) ==
    /\ \A i \in 1..Len(s) : s[i] \in Digits \cup {"."}
    /\ Cardinality({i \in 1..Len(s) : s[i] = "."}) <= 1
    /\ \E i \in 1..Len(s) : s[i] \in Digits

DecimalValue(s) ==
    LET dots == {i \in 1..Len(s) : s[i] = "."}
        frac == IF dots = {} THEN 0 ELSE Len(s) - (CHOOSE i \in dots : TRUE)
    IN  Num(DigitsToNat(RemoveChar(s, ".")), Pow10(frac))

ValueErr == [k |-> "err", s |-> <<>>, n |-> 0, d |-> 1]

\* float(s): the value, or ValueErr where float() raises ValueError.
\* Exponents and digit-group underscores are outside the modelled alphabet.
ParseFloat(s) ==
    LET t == Strip(s)
        signed == t # <<>> /\ Head(t) \in {"-", "+"}
        body == IF signed THEN Tail(t) ELSE t
        neg == signed /\ Head(t) = "-"
    IN  IF body = <<"n", "a", "n">> THEN NaN
        ELSE IF body = <<"i", "n", "f">> THEN (IF neg THEN NegInf ELSE PosInf)
        ELSE IF IsDecimal(body) THEN
            (IF neg THEN FNeg(DecimalValue(body)) ELSE DecimalValue(body))
        ELSE ValueErr

\* astype(str) of one cell: a missing value prints as "nan"
AsStr(c) == IF c.k = "str" THEN c ELSE Str(<<"n", "a", "n">>)

\* astype(float) of one cell: NaN stays NaN, text goes through float()
AsFloat(c) == IF c.k = "str" THEN ParseFloat(c.s) ELSE c

----------------------------------------------------------------------------
(* Column names and header texts *)

\* the column name BillToName
BillToName ==
    <<"B", "i", "l", "l", "T", "o", "N", "a", "m", "e">>

\* the column name Actuals_k_Local_FY25_YTD
Actuals_k_Local_FY25_YTD ==
    <<"A", "c", "t", "u", "a", "l", "s", "_", "k", "_", "L", "o", "c", "a", "l", "_",
      "F", "Y", "2", "5", "_", "Y", "T", "D">>

\* the column name Actuals_k_Local_FY24
Actuals_k_Local_FY24 ==
    <<"A", "c", "t", "u", "a", "l", "s", "_", "k", "_", "L", "o", "c", "a", "l", "_",
      "F", "Y", "2", "4">>

\* the column name Actuals_k_Sqm_FY25_YTD
Actuals_k_Sqm_FY25_YTD ==
    <<"A", "c", "t", "u", "a", "l", "s", "_", "k", "_", "S", "q", "m", "_", "F", "Y",
      "2", "5", "_", "Y", "T", "D">>

\* the column name Actuals_k_Sqm_FY24
Actuals_k_Sqm_FY24 ==
    <<"A", "c", "t", "u", "a", "l", "s", "_", "k", "_", "S", "q", "m", "_", "F", "Y",
      "2", "4">>

\* the column name Budget_k_Local_FY25_YTD
Budget_k_Local_FY25_YTD ==
    <<"B", "u", "d", "g", "e", "t", "_", "k", "_", "L", "o", "c", "a", "l", "_", "F",
      "Y", "2", "5", "_", "Y", "T", "D">>

\* the column name Budget_k_Sqm_FY24
Budget_k_Sqm_FY24 ==
    <<"B", "u", "d", "g", "e", "t", "_", "k", "_", "S", "q", "m", "_", "F", "Y", "2",
      "4">>

\* the column name Avg_AV%_FY25
Avg_AV_FY25 ==
    <<"A", "v", "g", "_", "A", "V", "%", "_", "F", "Y", "2", "5">>

\* the column name Avg_GM%_FY25
Avg_GM_FY25 ==
    <<"A", "v", "g", "_", "G", "M", "%", "_", "F", "Y", "2", "5">>

\* the column name Avg_AV%_Budget
Avg_AV_Budget ==
    <<"A", "v", "g", "_", "A", "V", "%", "_", "B", "u", "d", "g", "e", "t">>

\* the column name Avg_GM%_Budget
Avg_GM_Budget ==
    <<"A", "v", "g", "_", "G", "M", "%", "_", "B", "u", "d", "g", "e", "t">>

\* the column name Revenue_Growth_%
Revenue_Growth ==
    <<"R", "e", "v", "e", "n", "u", "e", "_", "G", "r", "o", "w", "t", "h", "_", "%">>

\* the column name Capped_Revenue_Growth_%
Capped_Revenue_Growth ==
    <<"C", "a", "p", "p", "e", "d", "_", "R", "e", "v", "e", "n", "u", "e", "_", "G",
      "r", "o", "w", "t", "h", "_", "%">>

\* the column name Capped_AV%
Capped_AV ==
    <<"C", "a", "p", "p", "e", "d", "_", "A", "V", "%">>

\* the column name Bubble_Size
Bubble_Size ==
    <<"B", "u", "b", "b", "l", "e", "_", "S", "i", "z", "e">>

\* the header text Actuals k Local\nFY25 YTD
Raw_Actuals_k_Local_FY25_YTD ==
    <<"A", "c", "t", "u", "a", "l", "s", " ", "k", " ", "L", "o", "c", "a", "l", "\n",
      "F", "Y", "2", "5", " ", "Y", "T", "D">>

\* the header text Actuals k Local\nFY24
Raw_Actuals_k_Local_FY24 ==
    <<"A", "c", "t", "u", "a", "l", "s", " ", "k", " ", "L", "o", "c", "a", "l", "\n",
      "F", "Y", "2", "4">>

\* the header text Actuals k Sqm\nFY25 YTD
Raw_Actuals_k_Sqm_FY25_YTD ==
    <<"A", "c", "t", "u", "a", "l", "s", " ", "k", " ", "S", "q", "m", "\n", "F", "Y",
      "2", "5", " ", "Y", "T", "D">>

\* the header text Actuals k Sqm\nFY24
Raw_Actuals_k_Sqm_FY24 ==
    <<"A", "c", "t", "u", "a", "l", "s", " ", "k", " ", "S", "q", "m", "\n", "F", "Y",
      "2", "4">>

\* the header text Budget k Local\nFY25 YTD
Raw_Budget_k_Local_FY25_YTD ==
    <<"B", "u", "d", "g", "e", "t", " ", "k", " ", "L", "o", "c", "a", "l", "\n", "F",
      "Y", "2", "5", " ", "Y", "T", "D">>

\* the header text Budget k Sqm\nFY24
Raw_Budget_k_Sqm_FY24 ==
    <<"B", "u", "d", "g", "e", "t", " ", "k", " ", "S", "q", "m", "\n", "F", "Y", "2",
      "4">>

\* the header text  Avg AV% FY25
Raw_Avg_AV_FY25 ==
    <<" ", "A", "v", "g", " ", "A", "V", "%", " ", "F", "Y", "2", "5">>

\* the header text Avg GM% FY25 
Raw_Avg_GM_FY25 ==
    <<"A", "v", "g", " ", "G", "M", "%", " ", "F", "Y", "2", "5", " ">>

\* the header text Avg AV% Budget\n
Raw_Avg_AV_Budget ==
    <<"A", "v", "g", " ", "A", "V", "%", " ", "B", "u", "d", "g", "e", "t", "\n">>

\* the header text Avg GM% Budget
Raw_Avg_GM_Budget ==
    <<"A", "v", "g", " ", "G", "M", "%", " ", "B", "u", "d", "g", "e", "t">>

\* the header text Actuals (k, Local)\nFY25 YTD
Paren_Actuals_k_Local_FY25_YTD ==
    <<"A", "c", "t", "u", "a", "l", "s", " ", "(", "k", ",", " ", "L", "o", "c", "a",
      "l", ")", "\n", "F", "Y", "2", "5", " ", "Y", "T", "D">>

----------------------------------------------------------------------------
(* DataFrames: [columns, cols, index]; cols[j] is the Series of columns[j] *)

NoFrame == [columns |-> <<>>, cols |-> <<>>, index |-> <<>>]

HasCol(df, name) == \E j \in 1..Len(df.columns) : df.columns[j] = name

\* df[name]
GetCol(df, name) ==
    df.cols[CHOOSE j \in 1..Len(df.columns) : df.columns[j] = name]

\* df[name] = series: replaces the column, or appends a new last column
SetCol(df, name, series) ==
    IF HasCol(df, name)
    THEN [df EXCEPT !.cols[CHOOSE j \in 1..Len(df.columns) : df.columns[j] = name] = series]
    ELSE [df EXCEPT !.columns = Append(@, name), !.cols = Append(@, series)]

\* positions of the True entries of a boolean mask, ascending
RECURSIVE Kept(_, _)
Kept(mask, upto) ==
    IF upto = 0 THEN <<>>
    ELSE IF mask[upto] THEN Append(Kept(mask, upto - 1), upto)
    ELSE Kept(mask, upto - 1)

\* df[mask]: the rows whose mask entry is True, in order, with their index labels
BoolIndex(df, mask) ==
    LET keep == Kept(mask, Len(mask))
    IN  [columns |-> df.columns,
         cols |-> [j \in 1..Len(df.cols) |-> [r \in 1..Len(keep) |-> df.cols[j][keep[r]]]],
         index |-> [r \in 1..Len(keep) |-> df.index[keep[r]]]]

\* pd.read_csv(file_path): an empty field is NaN, any other field is kept as its
\* text (dtype inference changes the text of a number, not its value)
read_csv(file) ==
    [columns |-> file.header,
     cols |-> [j \in 1..Len(file.header) |->
                  [r \in 1..Len(file.rows) |-> file.rows[r][j]]],
     index |-> [r \in 1..Len(file.rows) |-> r - 1]]

----------------------------------------------------------------------------
(* Steps 3 and 4: column names *)

\* columns.str.replace("\n", " ").str.strip().str.replace(" ", "_")
NormalizeName(h) == ReplaceChar(Strip(ReplaceChar(h, "\n", " ")), " ", "_")

required_columns ==
    <<Actuals_k_Local_FY25_YTD, Actuals_k_Local_FY24,
      Actuals_k_Sqm_FY25_YTD, Actuals_k_Sqm_FY24,
      Budget_k_Local_FY25_YTD, Budget_k_Sqm_FY24,
      Avg_AV_FY25, Avg_GM_FY25, Avg_AV_Budget, Avg_GM_Budget>>

\* a validator that looks for the six numeric columns only
missing_cols_numeric_only(df) ==
    SelectSeq(SubSeq(required_columns, 1, 6), LAMBDA col : ~HasCol(df, col))

\* [col for col in required_columns if col not in data.columns]
missing_cols(df) == SelectSeq(required_columns, LAMBDA col : ~HasCol(df, col))

----------------------------------------------------------------------------
(* Step 5: cleaning *)

\* the list passed to Series.replace: "-", "#DIV/0!", "", " "
InvalidTokens ==
    {<<"-">>, <<"#", "D", "I", "V", "/", "0", "!">>, <<>>, <<" ">>}

\* .replace(["-", "#DIV/0!", "", " "], np.nan) on one cell: whole-value match
ReplaceInvalid(text) == IF text \in InvalidTokens THEN NaN ELSE Str(text)

\* clean_numeric_column up to the float conversion, on one cell
NumericText(c) == RemoveNonNumeric(RemoveChar(AsStr(c).s, ","))

\* clean_numeric_column(column); a ValueErr entry stands for astype(float) raising
clean_numeric_column(column) ==
    [r \in 1..Len(column) |-> AsFloat(ReplaceInvalid(NumericText(column[r])))]

numeric_cols ==
    <<Actuals_k_Local_FY25_YTD, Actuals_k_Local_FY24,
      Actuals_k_Sqm_FY25_YTD, Actuals_k_Sqm_FY24,
      Budget_k_Local_FY25_YTD, Budget_k_Sqm_FY24>>

\* clean_percentage_column up to the float conversion, on one cell
PercentageText(c) == Strip(RemoveChar(RemoveChar(AsStr(c).s, "%"), ","))

\* clean_percentage_column(column); a ValueErr entry stands for astype(float) raising
clean_percentage_column(column) ==
    [r \in 1..Len(column) |-> AsFloat(ReplaceInvalid(PercentageText(column[r])))]

percentage_cols == <<Avg_AV_FY25, Avg_GM_FY25, Avg_AV_Budget, Avg_GM_Budget>>

\* astype(float) raised on some cell of the series
Raises(series) == \E r \in 1..Len(series) : series[r].k = "err"

----------------------------------------------------------------------------
(* Steps 6 to 8: derived columns *)

\* Series.replace(0, np.nan) on one cell
ReplaceZero(x) == IF IsNum(x) /\ x.n = 0 THEN NaN ELSE x

\* the growth formula without .replace(0, np.nan) on the denominator
Revenue_Growth_pct_zero_kept(df) ==
    LET ytd == GetCol(df, Actuals_k_Local_FY25_YTD)
        fy24 == GetCol(df, Actuals_k_Local_FY24)
    IN  [r \in 1..Len(ytd) |->
            FMul(FDiv(FSub(ytd[r], fy24[r]), fy24[r]), Int2F(100))]

\* ((FY25_YTD - FY24) / FY24.replace(0, np.nan)) * 100
Revenue_Growth_pct(df) ==
    LET ytd == GetCol(df, Actuals_k_Local_FY25_YTD)
        fy24 == GetCol(df, Actuals_k_Local_FY24)
    IN  [r \in 1..Len(ytd) |->
            FMul(FDiv(FSub(ytd[r], fy24[r]), ReplaceZero(fy24[r])), Int2F(100))]

growth_cap == 100
av_cap == -5

\* the argument None of np.clip: no bound on that side
None == [k |-> "none", s |-> <<>>, n |-> 0, d |-> 1]

\* np.clip(series, a_min, a_max): NaN stays NaN
np_clip(series, a_min, a_max) ==
    [r \in 1..Len(series) |->
        LET x == series[r]
            lo == IF a_min.k = "none" \/ IsNaN(x) THEN x ELSE FMax2(a_min, x)
        IN  IF a_max.k = "none" \/ IsNaN(lo) THEN lo ELSE FMin2(a_max, lo)]

\* np.clip(data["Revenue_Growth_%"], -growth_cap, growth_cap)
Capped_Revenue_Growth_pct(df) ==
    np_clip(GetCol(df, Revenue_Growth), Int2F(-growth_cap), Int2F(growth_cap))

\* a cap that also clips AV% at the slider maximum of 100
Capped_AV_pct_with_ceiling(df) ==
    np_clip(GetCol(df, Avg_AV_FY25), Int2F(av_cap), Int2F(100))

\* np.clip(data["Avg_AV%_FY25"], av_cap, None)
Capped_AV_pct(df) == np_clip(GetCol(df, Avg_AV_FY25), Int2F(av_cap), None)

\* Series.min(): NaN entries are skipped, NaN when none is left
RECURSIVE SeriesMin(_)
SeriesMin(series) ==
    IF series = <<>> THEN NaN
    ELSE LET rest == SeriesMin(Tail(series))
             x == Head(series)
         IN  IF IsNaN(x) THEN rest ELSE IF IsNaN(rest) THEN x ELSE FMin2(x, rest)

\* Series.max(): NaN entries are skipped, NaN when none is left
RECURSIVE SeriesMax(_)
SeriesMax(series) ==
    IF series = <<>> THEN NaN
    ELSE LET rest == SeriesMax(Tail(series))
             x == Head(series)
         IN  IF IsNaN(x) THEN rest ELSE IF IsNaN(rest) THEN x ELSE FMax2(x, rest)

min_bubble_size == 10
max_bubble_size == 300

\* (vol - vol.min()) / (vol.max() - vol.min()) * (max - min) + min
ScaledBubble(df) ==
    LET vol == GetCol(df, Actuals_k_Sqm_FY25_YTD)
        lo == SeriesMin(vol)
        hi == SeriesMax(vol)
    IN  [r \in 1..Len(vol) |->
            FAdd(FMul(FDiv(FSub(vol[r], lo), FSub(hi, lo)),
                      Int2F(max_bubble_size - min_bubble_size)),
                 Int2F(min_bubble_size))]

\* Series.fillna(value)
fillna(series, value) ==
    [r \in 1..Len(series) |-> IF IsNaN(series[r]) THEN value ELSE series[r]]

\* the last step without fillna: only the lower clip
FilledBubble_no_fillna(df) ==
    np_clip(GetCol(df, Bubble_Size), Int2F(min_bubble_size), None)

\* data["Bubble_Size"].fillna(min_bubble_size).clip(lower=min_bubble_size)
FilledBubble(df) ==
    np_clip(fillna(GetCol(df, Bubble_Size), Int2F(min_bubble_size)),
            Int2F(min_bubble_size), None)

----------------------------------------------------------------------------
(* Steps 9 and 10: the Dash app *)

growth_slider_min == -100
growth_slider_max == 100
av_slider_min == -5
av_slider_max == 100
slider_step == 5

\* value= of the two RangeSliders
LayoutValues ==
    [growth_range |-> <<growth_slider_min, growth_slider_max>>,
     av_range |-> <<av_slider_min, av_slider_max>>]

\* the positions a RangeSlider handle can take
SliderStops(lo, hi) == {v \in lo..hi : (v - lo) % slider_step = 0}

\* the handle positions the model moves the sliders to
GrowthStops ==
    {growth_slider_min, 0, growth_slider_max}
        \cap SliderStops(growth_slider_min, growth_slider_max)
AVStops ==
    {av_slider_min, 0, av_slider_max} \cap SliderStops(av_slider_min, av_slider_max)

\* the values a RangeSlider reports: [low, high] with low <= high
RangeValues(stops) == {p \in stops \X stops : p[1] <= p[2]}

\* a mask whose upper AV% bound is exclusive
ChartMask_exclusive_upper(df, g_range, a_range) ==
    LET g == GetCol(df, Capped_Revenue_Growth)
        a == GetCol(df, Capped_AV)
    IN  [r \in 1..Len(g) |->
            /\ FGe(g[r], Int2F(g_range[1]))
            /\ FLe(g[r], Int2F(g_range[2]))
            /\ FGe(a[r], Int2F(a_range[1]))
            /\ FLt(a[r], Int2F(a_range[2]))]

\* the boolean mask of update_chart
ChartMask(df, g_range, a_range) ==
    LET g == GetCol(df, Capped_Revenue_Growth)
        a == GetCol(df, Capped_AV)
    IN  [r \in 1..Len(g) |->
            /\ FGe(g[r], Int2F(g_range[1]))
            /\ FLe(g[r], Int2F(g_range[2]))
            /\ FGe(a[r], Int2F(a_range[1]))
            /\ FLe(a[r], Int2F(a_range[2]))]

----------------------------------------------------------------------------
(* The data rows the model draws from; an empty CSV field is NaN *)

\* prior-year actual 0
Row_ZeroBase ==
    <<Str(<<"A">>),
      Str(<<"5", "0", "0">>),
      Str(<<"0">>),
      Str(<<"1", "0">>),
      Str(<<"8">>),
      Str(<<"4", "5", "0">>),
      Str(<<"9">>),
      Str(<<"1", "2", "%">>),
      Str(<<"3", "0", "%">>),
      Str(<<"1", "0", "%">>),
      Str(<<"2", "8", "%">>)>>

\* thousands separators, AV% above 100
Row_Thousands ==
    <<Str(<<"B">>),
      Str(<<"1", ",", "2", "3", "4">>),
      Str(<<"1", ",", "0", "0", "0">>),
      Str(<<"2", "0">>),
      Str(<<"1", "8">>),
      Str(<<"$", "1", ",", "1", "0", "0">>),
      Str(<<"1", "9">>),
      Str(<<"1", "5", "0", "%">>),
      Str(<<"4", "0", "%">>),
      Str(<<"4", "6", "%">>),
      Str(<<"3", "5", "%">>)>>

\* growth -50, AV% below the floor, no volume
Row_Shrinking ==
    <<Str(<<"C">>),
      Str(<<"5", "0">>),
      Str(<<"1", "0", "0">>),
      NaN,
      Str(<<"5">>),
      Str(<<"#", "D", "I", "V", "/", "0", "!">>),
      Str(<<"-">>),
      Str(<<"-", "7", ".", "5", "%">>),
      Str(<<"-">>),
      Str(<<"5", "%">>),
      NaN>>

\* growth 400, AV% a dash
Row_Booming ==
    <<Str(<<"D">>),
      Str(<<"5", "0", "0">>),
      Str(<<"1", "0", "0">>),
      Str(<<"1", "0">>),
      Str(<<"1", "0">>),
      Str(<<"4", "0", "0">>),
      Str(<<"1", "0">>),
      Str(<<"-">>),
      Str(<<"2", "5", "%">>),
      Str(<<"#", "D", "I", "V", "/", "0", "!">>),
      Str(<<"2", "0", "%">>)>>

\* #DIV/0! in a numeric column, AV% exactly 100
Row_DivZero ==
    <<Str(<<"E">>),
      Str(<<"#", "D", "I", "V", "/", "0", "!">>),
      Str(<<"1", "0", "0">>),
      Str(<<"3", "0">>),
      Str(<<"2", "5">>),
      Str(<<"9", "0">>),
      Str(<<"2", "0">>),
      Str(<<"1", "0", "0", "%">>),
      Str(<<"5", "0", "%">>),
      Str(<<"4", "6", "%">>),
      Str(<<"4", "5", "%">>)>>

\* negative prior-year actual, AV% 0
Row_NegativeBase ==
    <<Str(<<"F">>),
      Str(<<"1", "0">>),
      Str(<<"-", "5">>),
      Str(<<"-">>),
      Str(<<" ">>),
      Str(<<"1", "2">>),
      Str(<<"3">>),
      Str(<<"0", "%">>),
      Str(<<" ">>),
      Str(<<"1", "%">>),
      Str(<<"-">>)>>

\* growth 0, padded percentage
Row_Flat ==
    <<Str(<<"G">>),
      Str(<<"1", "0", "0">>),
      Str(<<"1", "0", "0">>),
      Str(<<"2", "0">>),
      Str(<<"2", "0">>),
      Str(<<"1", "0", "0">>),
      Str(<<"2", "0">>),
      Str(<<" ", "4", "6", " ", "%">>),
      Str(<<"3", "3", ".", "5", "%">>),
      Str(<<"4", "6", "%">>),
      Str(<<"3", "0", "%">>)>>

\* 1.2.3 in a numeric column
Row_BadNumber ==
    <<Str(<<"H">>),
      Str(<<"1", "0", "0">>),
      Str(<<"1", ".", "2", ".", "3">>),
      Str(<<"1", "0">>),
      Str(<<"1", "-", "2">>),
      Str(<<"-", "-">>),
      Str(<<"1", "0">>),
      Str(<<"5", "%">>),
      Str(<<"5", "%">>),
      Str(<<"5", "%">>),
      Str(<<"5", "%">>)>>

\* abc in a percentage column
Row_BadPercent ==
    <<Str(<<"I">>),
      Str(<<"1", "0", "0">>),
      Str(<<"1", "0", "0">>),
      Str(<<"1", "0">>),
      Str(<<"1", "0">>),
      Str(<<"1", "0", "0">>),
      Str(<<"1", "0">>),
      Str(<<"a", "b", "c">>),
      Str(<<"5", "%">>),
      Str(<<"5", "%">>),
      Str(<<"5", "%">>)>>

\* only invalid tokens and empty fields
Row_AllMissing ==
    <<Str(<<"J">>),
      Str(<<" ">>),
      Str(<<"-">>),
      NaN,
      NaN,
      Str(<<"-">>),
      Str(<<" ">>),
      Str(<<"#", "D", "I", "V", "/", "0", "!">>),
      NaN,
      Str(<<"-">>),
      Str(<<" ">>)>>

RowVocab ==
    {Row_ZeroBase,
     Row_Thousands,
     Row_Shrinking,
     Row_Booming,
     Row_DivZero,
     Row_NegativeBase,
     Row_Flat,
     Row_BadNumber,
     Row_BadPercent,
     Row_AllMissing}


----------------------------------------------------------------------------
(* The CSV files the model loads *)

\* header rows; <<>> marks a column the file does not have
HdrCanonical ==
    <<BillToName, Actuals_k_Local_FY25_YTD, Actuals_k_Local_FY24,
      Actuals_k_Sqm_FY25_YTD, Actuals_k_Sqm_FY24, Budget_k_Local_FY25_YTD,
      Budget_k_Sqm_FY24, Avg_AV_FY25, Avg_GM_FY25, Avg_AV_Budget, Avg_GM_Budget>>

HdrExport ==
    <<BillToName, Raw_Actuals_k_Local_FY25_YTD, Raw_Actuals_k_Local_FY24,
      Raw_Actuals_k_Sqm_FY25_YTD, Raw_Actuals_k_Sqm_FY24,
      Raw_Budget_k_Local_FY25_YTD, Raw_Budget_k_Sqm_FY24, Raw_Avg_AV_FY25,
      Raw_Avg_GM_FY25, Raw_Avg_AV_Budget, Raw_Avg_GM_Budget>>

HdrParen == [HdrExport EXCEPT ![2] = Paren_Actuals_k_Local_FY25_YTD]

HdrNoGMBudget == [HdrExport EXCEPT ![11] = <<>>]

HdrTwoAbsent == [HdrCanonical EXCEPT ![3] = <<>>, ![10] = <<>>]

HeaderChoices == {HdrCanonical, HdrExport, HdrParen, HdrNoGMBudget, HdrTwoAbsent}

RECURSIVE SeqsUpTo(_, _)
SeqsUpTo(S, n) ==
    IF n = 0 THEN {<<>>}
    ELSE LET shorter == SeqsUpTo(S, n - 1)
         IN  shorter \cup {Append(q, x) : q \in {t \in shorter : Len(t) = n - 1}, x \in S}

\* the file with header row h and data rows rs, without the absent columns
CsvFile(h, rs) ==
    LET present == Kept([j \in 1..Len(h) |-> h[j] # <<>>], Len(h))
    IN  [header |-> [j \in 1..Len(present) |-> h[present[j]]],
         rows |-> [r \in 1..Len(rs) |-> [j \in 1..Len(present) |-> rs[r][present[j]]]]]

\* the files the model starts from: the exported header over every table of up
\* to MaxRows rows, each other header over the tables of at most one row
CsvChoices ==
    {CsvFile(HdrExport, rs) : rs \in SeqsUpTo(RowVocab, MaxRows)}
        \cup {CsvFile(h, rs) : h \in HeaderChoices, rs \in SeqsUpTo(RowVocab, 1)}

----------------------------------------------------------------------------
(* The script, statement by statement *)

NoError == [type |-> "none", line |-> 0]
Raise(type, line) == [type |-> type, line |-> line]

Init ==
    /\ csv \in CsvChoices
    /\ pc = "load"
    /\ error = NoError
    /\ data = NoFrame
    /\ col_i = 0
    /\ layout = <<>>
    /\ growth_range = <<>>
    /\ av_range = <<>>
    /\ filtered_data = NoFrame

\* line 11
LoadData ==
    /\ pc = "load"
    /\ data' = read_csv(csv)
    /\ pc' = "normalize"
    /\ UNCHANGED <<csv, error, col_i, layout, growth_range, av_range, filtered_data>>

\* line 14
NormalizeColumns ==
    /\ pc = "normalize"
    /\ data' = [data EXCEPT !.columns = [j \in 1..Len(@) |-> NormalizeName(@[j])]]
    /\ pc' = "verify"
    /\ UNCHANGED <<csv, error, col_i, layout, growth_range, av_range, filtered_data>>

\* lines 24-27
VerifyColumns ==
    /\ pc = "verify"
    /\ IF missing_cols(data) # <<>>
       THEN /\ pc' = "exit"
            /\ error' = Raise("ValueError", 27)
            /\ col_i' = col_i
       ELSE /\ pc' = "clean_numeric"
            /\ error' = error
            /\ col_i' = 1
    /\ UNCHANGED <<csv, data, layout, growth_range, av_range, filtered_data>>

\* lines 46-47, one iteration
CleanNumeric ==
    /\ pc = "clean_numeric"
    /\ LET col == numeric_cols[col_i]
           cleaned == clean_numeric_column(GetCol(data, col))
       IN  IF Raises(cleaned)
           THEN /\ pc' = "exit"
                /\ error' = Raise("ValueError", 37)
                /\ UNCHANGED <<data, col_i>>
           ELSE /\ data' = SetCol(data, col, cleaned)
                /\ error' = error
                /\ IF col_i < Len(numeric_cols)
                   THEN pc' = pc /\ col_i' = col_i + 1
                   ELSE pc' = "clean_percentage" /\ col_i' = 1
    /\ UNCHANGED <<csv, layout, growth_range, av_range, filtered_data>>

\* lines 61-62, one iteration
CleanPercentage ==
    /\ pc = "clean_percentage"
    /\ LET col == percentage_cols[col_i]
           cleaned == clean_percentage_column(GetCol(data, col))
       IN  IF Raises(cleaned)
           THEN /\ pc' = "exit"
                /\ error' = Raise("ValueError", 57)
                /\ UNCHANGED <<data, col_i>>
           ELSE /\ data' = SetCol(data, col, cleaned)
                /\ error' = error
                /\ IF col_i < Len(percentage_cols)
                   THEN pc' = pc /\ col_i' = col_i + 1
                   ELSE pc' = "growth" /\ col_i' = col_i
    /\ UNCHANGED <<csv, layout, growth_range, av_range, filtered_data>>

\* lines 65-68
ComputeGrowth ==
    /\ pc = "growth"
    /\ data' = SetCol(data, Revenue_Growth, Revenue_Growth_pct(data))
    /\ pc' = "cap_growth"
    /\ UNCHANGED <<csv, error, col_i, layout, growth_range, av_range, filtered_data>>

\* line 73
CapGrowth ==
    /\ pc = "cap_growth"
    /\ data' = SetCol(data, Capped_Revenue_Growth, Capped_Revenue_Growth_pct(data))
    /\ pc' = "cap_av"
    /\ UNCHANGED <<csv, error, col_i, layout, growth_range, av_range, filtered_data>>

\* line 74
CapAV ==
    /\ pc = "cap_av"
    /\ data' = SetCol(data, Capped_AV, Capped_AV_pct(data))
    /\ pc' = "bubble"
    /\ UNCHANGED <<csv, error, col_i, layout, growth_range, av_range, filtered_data>>

\* lines 79-82
ComputeBubble ==
    /\ pc = "bubble"
    /\ data' = SetCol(data, Bubble_Size, ScaledBubble(data))
    /\ pc' = "bubble_fill"
    /\ UNCHANGED <<csv, error, col_i, layout, growth_range, av_range, filtered_data>>

\* line 84
FillBubble ==
    /\ pc = "bubble_fill"
    /\ data' = SetCol(data, Bubble_Size, FilledBubble(data))
    /\ pc' = "setup"
    /\ UNCHANGED <<csv, error, col_i, layout, growth_range, av_range, filtered_data>>

\* lines 87-120: the app, its layout, and the registration of update_chart
SetupApp ==
    /\ pc = "setup"
    /\ layout' = LayoutValues
    /\ pc' = "run"
    /\ UNCHANGED <<csv, error, data, col_i, growth_range, av_range, filtered_data>>

\* lines 168-169
RunServer ==
    /\ pc = "run"
    /\ pc' = "serving"
    /\ UNCHANGED <<csv, error, data, col_i, layout, growth_range, av_range, filtered_data>>

\* an update_chart that assigns the filtered frame to the global `data`
DataAfterChart_assigns_global(df, filtered) == filtered

\* the frame update_chart leaves in `data`: the function only reads it
DataAfterChart(df, filtered) == df

\* lines 121-165, called by Dash with the values of the two sliders; the figure
\* built from filtered_data belongs to plotly and is not modelled
update_chart ==
    /\ pc = "serving"
    /\ \E g \in RangeValues(GrowthStops), a \in RangeValues(AVStops) :
          /\ growth_range' = g
          /\ av_range' = a
          /\ filtered_data' = BoolIndex(data, ChartMask(data, g, a))
          /\ data' = DataAfterChart(data, filtered_data')
    /\ UNCHANGED <<csv, pc, error, col_i, layout>>

Next ==
    \/ LoadData
    \/ NormalizeColumns
    \/ VerifyColumns
    \/ CleanNumeric
    \/ CleanPercentage
    \/ ComputeGrowth
    \/ CapGrowth
    \/ CapAV
    \/ ComputeBubble
    \/ FillBubble
    \/ SetupApp
    \/ RunServer
    \/ update_chart

Spec == Init /\ [][Next]_vars

----------------------------------------------------------------------------
(* Properties *)

\* r-th cell of column `name`
At(df, name, r) == GetCol(df, name)[r]

RowsOf(df) == 1..Len(df.index)

\* the derived columns are all in place
Derived == pc \in {"setup", "run", "serving"}

\* update_chart has returned at least once
Served == pc = "serving" /\ growth_range # <<>>

\* lo <= x <= hi for integer bounds; false for NaN and the infinities
Within(x, lo, hi) == x.k = "num" /\ lo * x.d <= x.n /\ x.n <= hi * x.d

\* the rows of df whose two capped values lie in the inclusive ranges
RowsInRange(df, g_range, a_range) ==
    {r \in RowsOf(df) :
        /\ Within(At(df, Capped_Revenue_Growth, r), g_range[1], g_range[2])
        /\ Within(At(df, Capped_AV, r), a_range[1], a_range[2])}

\* view is df restricted to the rows `rows`, in df's order, labels and cells kept
IsSubframe(view, df, rows) ==
    /\ view.columns = df.columns
    /\ Len(view.cols) = Len(df.cols)
    /\ Len(view.index) = Cardinality(rows)
    /\ \A p \in 1..Len(view.index) :
          /\ \E r \in rows : df.index[r] = view.index[p]
          /\ \A q \in 1..Len(view.index) : p < q => view.index[p] < view.index[q]
          /\ \A j \in 1..Len(df.cols) :
                /\ Len(view.cols[j]) = Len(view.index)
                /\ \A r \in rows :
                      df.index[r] = view.index[p] => view.cols[j][p] = df.cols[j][r]

\* C1: after every update_chart call the filtered view is exactly the rows, in
\* original order, whose capped growth and capped AV% lie within the call's
\* inclusive bounds; a row with a missing capped value is never in the view.
C1_FilterExact ==
    Served =>
        /\ IsSubframe(filtered_data, data, RowsInRange(data, growth_range, av_range))
        /\ \A p \in RowsOf(filtered_data) :
              /\ ~IsNaN(At(filtered_data, Capped_Revenue_Growth, p))
              /\ ~IsNaN(At(filtered_data, Capped_AV, p))

\* a call kept a row lying on an inclusive bound and dropped a row with a
\* missing capped value
C1_Witness ==
    /\ Served
    /\ av_range[2] = 0
    /\ \E p \in RowsOf(filtered_data) :
          At(filtered_data, Capped_AV, p) = Int2F(0)
    /\ \E r \in RowsOf(data) :
          /\ IsNaN(At(data, Capped_Revenue_Growth, r)) \/ IsNaN(At(data, Capped_AV, r))
          /\ \A p \in RowsOf(filtered_data) : filtered_data.index[p] # data.index[r]

\* the columns of the ten required names cleaned so far
CleanedColumns ==
    CASE pc = "clean_numeric" -> {numeric_cols[j] : j \in 1..(col_i - 1)}
      [] pc = "clean_percentage" ->
            Range(numeric_cols) \cup {percentage_cols[j] : j \in 1..(col_i - 1)}
      [] pc \in {"growth", "cap_growth", "cap_av", "bubble", "bubble_fill",
                 "setup", "run", "serving"} ->
            Range(numeric_cols) \cup Range(percentage_cols)
      [] OTHER -> {}

\* the cell texts the cleaners are to map to missing; an empty field reaches
\* the cleaners as NaN
IsInvalidToken(c) ==
    \/ c.k = "nan"
    \/ c.k = "str" /\ c.s \in {<<"#", "D", "I", "V", "/", "0", "!">>, <<"-">>, <<>>, <<" ">>}

\* C2: every cell whose text is #DIV/0!, -, empty or one space is missing after
\* its column has been cleaned, in the numeric and in the percentage columns.
C2_InvalidTokensMissing ==
    CleanedColumns # {} =>
        \A j \in 1..Len(csv.header) : \A r \in 1..Len(csv.rows) :
            (data.columns[j] \in CleanedColumns /\ IsInvalidToken(csv.rows[r][j]))
                => IsNaN(data.cols[j][r])

\* C3: neither cleaner raises: the script is never ended by the float
\* conversion of clean_numeric_column or clean_percentage_column.
C3_CleanersNeverRaise ==
    ~(pc = "exit" /\ error.type = "ValueError" /\ error.line \in {37, 57})

\* the non-missing volume values
Volumes(df) ==
    {x \in Range(GetCol(df, Actuals_k_Sqm_FY25_YTD)) : ~IsNaN(x)}

\* C4: once Bubble_Size is filled, every row's value is a number in [10, 300];
\* a row with a missing volume has exactly 10, and when at most one distinct
\* volume value is present every row has exactly 10 and nothing was raised.
C4_BubbleSizeRange ==
    Derived =>
        /\ error = NoError
        /\ \A r \in RowsOf(data) :
              LET b == At(data, Bubble_Size, r)
              IN  /\ Within(b, 10, 300)
                  /\ IsNaN(At(data, Actuals_k_Sqm_FY25_YTD, r)) => b = Int2F(10)
                  /\ Cardinality(Volumes(data)) <= 1 => b = Int2F(10)

\* a table with a missing volume beside a present one (so max = min)
C4_Witness ==
    /\ Derived
    /\ \E r \in RowsOf(data) : IsNaN(At(data, Actuals_k_Sqm_FY25_YTD, r))
    /\ Cardinality(Volumes(data)) = 1

\* C5: Revenue_Growth_% is (FY25_YTD - FY24) / FY24 * 100 when both actuals are
\* present and FY24 is not zero; it is missing, never infinite, when FY24 is
\* zero; and a missing growth gives a missing capped growth.
C5_RevenueGrowth ==
    HasCol(data, Revenue_Growth) =>
        \A r \in RowsOf(data) :
            LET ytd == At(data, Actuals_k_Local_FY25_YTD, r)
                fy24 == At(data, Actuals_k_Local_FY24, r)
                g == At(data, Revenue_Growth, r)
            IN  /\ g.k \in {"num", "nan"}
                /\ (IsNum(ytd) /\ IsNum(fy24) /\ fy24.n # 0) =>
                      /\ IsNum(g)
                      /\ g.n * ytd.d * fy24.n = 100 * g.d * (ytd.n * fy24.d - fy24.n * ytd.d)
                /\ (IsNum(fy24) /\ fy24.n = 0) => IsNaN(g)
                /\ (HasCol(data, Capped_Revenue_Growth) /\ IsNaN(g)) =>
                      IsNaN(At(data, Capped_Revenue_Growth, r))

\* FY24 = 0 with FY25_YTD = 500 in one row, a defined growth in another, capped
C5_Witness ==
    /\ HasCol(data, Capped_Revenue_Growth)
    /\ \E r \in RowsOf(data) :
          /\ At(data, Actuals_k_Local_FY24, r) = Int2F(0)
          /\ At(data, Actuals_k_Local_FY25_YTD, r) = Int2F(500)
    /\ \E r \in RowsOf(data) : IsNum(At(data, Revenue_Growth, r))

\* C6: once both caps are computed, the capped growth is missing or in
\* [-100, 100], equal to the growth inside the range and to the nearer bound
\* outside; the capped AV% is missing or >= -5, equal to Avg_AV%_FY25 when that
\* is >= -5 (however large) and to -5 otherwise.
C6_Caps ==
    HasCol(data, Capped_AV) =>
        \A r \in RowsOf(data) :
            LET g == At(data, Revenue_Growth, r)
                cg == At(data, Capped_Revenue_Growth, r)
                av == At(data, Avg_AV_FY25, r)
                cav == At(data, Capped_AV, r)
            IN  /\ IsNaN(cg) \/ Within(cg, -100, 100)
                /\ IsNaN(g) => IsNaN(cg)
                /\ Within(g, -100, 100) => cg = g
                /\ (IsNum(g) /\ g.n > 100 * g.d) => cg = Int2F(100)
                /\ (IsNum(g) /\ g.n < -100 * g.d) => cg = Int2F(-100)
                /\ IsNaN(cav) \/ (IsNum(cav) /\ cav.n >= -5 * cav.d)
                /\ IsNaN(av) => IsNaN(cav)
                /\ (IsNum(av) /\ av.n >= -5 * av.d) => cav = av
                /\ (IsNum(av) /\ av.n < -5 * av.d) => cav = Int2F(-5)

\* a growth above 100 and an AV% above 100 in the same table
C6_Witness ==
    /\ HasCol(data, Capped_AV)
    /\ \E r \in RowsOf(data) :
          LET g == At(data, Revenue_Growth, r) IN IsNum(g) /\ g.n > 100 * g.d
    /\ \E r \in RowsOf(data) :
          LET av == At(data, Avg_AV_FY25, r) IN IsNum(av) /\ av.n > 100 * av.d

\* C7: a column whose raw header is Actuals (k, Local)<newline>FY25 YTD is named
\* Actuals_k_Local_FY25_YTD after normalisation, and the required-column check
\* does not fail for that name.
C7_ParenHeaderCanonical ==
    \A j \in 1..Len(csv.header) :
        (csv.header[j] = Paren_Actuals_k_Local_FY25_YTD /\ pc \notin {"load", "normalize"})
            => /\ data.columns[j] = Actuals_k_Local_FY25_YTD
               /\ (pc # "verify" =>
                      Actuals_k_Local_FY25_YTD \notin Range(missing_cols(data)))

\* the required names the table lacks
Absent(df) == Range(required_columns) \ Range(df.columns)

\* C8: once the check of lines 24-27 has run, a table lacking a required column
\* has ended the script with the ValueError of line 27, with no cell cleaned, no
\* column derived, no layout built and no chart call made; a table with all ten
\* columns is not ended by that error.
C8_MissingColumnsAbort ==
    pc \notin {"load", "normalize", "verify"} =>
        IF Absent(data) # {}
        THEN /\ pc = "exit"
             /\ error = Raise("ValueError", 27)
             /\ Len(data.columns) = Len(csv.header)
             /\ \A j \in 1..Len(csv.header) : \A r \in 1..Len(csv.rows) :
                   data.cols[j][r] = csv.rows[r][j]
             /\ layout = <<>>
             /\ growth_range = <<>>
             /\ filtered_data = NoFrame
        ELSE error # Raise("ValueError", 27)

\* the script ended at line 27 on a file that has data rows
C8_Witness ==
    /\ pc = "exit"
    /\ error = Raise("ValueError", 27)
    /\ Absent(data) # {}
    /\ Len(csv.rows) > 0

\* C9: while the server runs, every step leaves the base table, the file and the
\* layout as they are, and the view a call returns is the function of the base
\* table and that call's bounds alone.
C9_BaseTableReadOnly ==
    [][pc = "serving" =>
          /\ pc' = "serving"
          /\ data' = data
          /\ csv' = csv
          /\ layout' = layout
          /\ IsSubframe(filtered_data', data, RowsInRange(data, growth_range', av_range'))]_vars

\* a call returned a proper part of the table and the table still has every
\* row of the file
C9_Witness ==
    /\ Served
    /\ Len(filtered_data.index) >= 1
    /\ Len(filtered_data.index) < Len(data.index)
    /\ Len(data.index) = Len(csv.rows)

\* C10: called with the layout's default slider values, update_chart returns
\* exactly the rows whose two capped values are both present.
C10_DefaultShowsAll ==
    (Served /\ growth_range = LayoutValues.growth_range /\ av_range = LayoutValues.av_range)
        => IsSubframe(filtered_data, data,
                      {r \in RowsOf(data) :
                          /\ ~IsNaN(At(data, Capped_Revenue_Growth, r))
                          /\ ~IsNaN(At(data, Capped_AV, r))})

====
